---- MODULE Spec2Model ----
(***************************************************************************)
(* imgx: a command-line client that sends images and a prompt to a         *)
(* generation service and renders the response.  The model covers the      *)
(* source loader (input.ts), the response classifier, image persister and  *)
(* output renderer (output.ts), the analyze command (analyze.ts) and the    *)
(* chat command (chat.ts).                                                 *)
(*                                                                         *)
(* Conventions.  A JavaScript string that the code takes apart (split,     *)
(* startsWith, replace, regular expressions) is a sequence of one-letter   *)
(* strings.  A byte buffer is a sequence of integers 0..255.  A value that  *)
(* may be undefined/null is a set with at most one element: {} is          *)
(* undefined, {v} is the value v.                                          *)
(***************************************************************************)
EXTENDS Integers, Sequences, FiniteSets, TLC

VARIABLES
  buf,        \* SpecSniff: the byte buffer handed to detectMimeFromBytes
  sniffDone,  \* SpecSniff: detectMimeFromBytes has returned
  sniffed,    \* SpecSniff: its return value ({} is null)
  source,     \* SpecLoad: the descriptor handed to loadImagePart
  env,        \* SpecLoad: what the descriptor's source holds (file, response, stdin, clipboard)
  loaded,     \* SpecLoad: the outcome of loadImagePart ({} before the call)
  pc,         \* the statement the command is at
  response,   \* the service's response handed to parseResponse
  opts,       \* the command-line options (ImgxOptions)
  parsed,     \* the ParsedPart list parseResponse returned
  imageParts, \* saveImages: the image parts still to be written and those written
  paths,      \* saveImages: the paths written so far; its return value
  dirExisted, \* whether the output directory existed before saveImages
  dirExists,  \* whether the output directory exists
  files,      \* the files of the output directory: path and bytes
  stdout,     \* what console.log wrote
  stderr,     \* what console.error wrote
  now,        \* Date.now()
  args,       \* analyze: the positional arguments, the prompt last
  envs,       \* analyze: what each image source holds
  apiKey,     \* analyze: whether GEMINI_API_KEY is set
  loads,      \* analyze: per image source, the Part its load resolved to ({} while pending)
  sent,       \* the requests sent to the generation service
  exit,       \* the exit code of the process ({} while it runs)
  turns,      \* chat: per accepted input line, the state of its line handler
  stdin       \* chat: the lines still to arrive on stdin; end of input follows the last

sniffVars == <<buf, sniffDone, sniffed>>

loadVars == <<source, env, loaded>>

outVars ==
  <<pc, response, opts, parsed, imageParts, paths, dirExisted, dirExists, files,
    stdout, stderr, now>>

runVars == <<args, envs, apiKey, loads, sent, exit>>

chatVars == <<turns, stdin>>

vars == <<sniffVars, loadVars, outVars, runVars, chatVars>>

----------------------------------------------------------------------------
(* Optional values and strings.                                            *)

Val(opt) == CHOOSE v \in opt : TRUE

\* a ?? b
Coalesce(opt, default) == IF opt = {} THEN default ELSE Val(opt)

\* String.prototype.startsWith
StartsWith(s, prefix) ==
  /\ Len(s) >= Len(prefix)
  /\ \A i \in 1..Len(prefix) : s[i] = prefix[i]

\* s.slice(0, n)
Take(s, n) == SubSeq(s, 1, IF n < Len(s) THEN n ELSE Len(s))

\* s.slice(n)
Drop(s, n) == SubSeq(s, n + 1, Len(s))

----------------------------------------------------------------------------
(* input.ts: detectMimeFromBytes                                           *)

IMAGE == <<"i", "m", "a", "g", "e", "/">>

IMAGE_PNG == IMAGE \o <<"p", "n", "g">>

IMAGE_JPEG == IMAGE \o <<"j", "p", "e", "g">>

IMAGE_GIF == IMAGE \o <<"g", "i", "f">>

IMAGE_WEBP == IMAGE \o <<"w", "e", "b", "p">>

IMAGE_BMP == IMAGE \o <<"b", "m", "p">>

\* bytes[i] === v, with i zero-based: reading past the end of a Uint8Array
\* gives undefined, which equals no byte value.
ByteIs(bytes, i, v) == i < Len(bytes) /\ bytes[i + 1] = v

\* A mutation of detectMimeFromBytes: the BMP test looks at the first byte only.
detectMimeLooseBmp(bytes) ==
  IF ByteIs(bytes, 0, 137) /\ ByteIs(bytes, 1, 80) /\ ByteIs(bytes, 2, 78) /\ ByteIs(bytes, 3, 71)
    THEN {IMAGE_PNG}
  ELSE IF ByteIs(bytes, 0, 255) /\ ByteIs(bytes, 1, 216) /\ ByteIs(bytes, 2, 255)
    THEN {IMAGE_JPEG}
  ELSE IF ByteIs(bytes, 0, 71) /\ ByteIs(bytes, 1, 73) /\ ByteIs(bytes, 2, 70) /\ ByteIs(bytes, 3, 56)
    THEN {IMAGE_GIF}
  ELSE IF /\ ByteIs(bytes, 0, 82) /\ ByteIs(bytes, 1, 73) /\ ByteIs(bytes, 2, 70) /\ ByteIs(bytes, 3, 70)
          /\ ByteIs(bytes, 8, 87) /\ ByteIs(bytes, 9, 69) /\ ByteIs(bytes, 10, 66) /\ ByteIs(bytes, 11, 80)
    THEN {IMAGE_WEBP}
  ELSE IF ByteIs(bytes, 0, 66)
    THEN {IMAGE_BMP}
  ELSE {}

detectMimeFromBytes(bytes) ==
  IF ByteIs(bytes, 0, 137) /\ ByteIs(bytes, 1, 80) /\ ByteIs(bytes, 2, 78) /\ ByteIs(bytes, 3, 71)
    THEN {IMAGE_PNG}
  ELSE IF ByteIs(bytes, 0, 255) /\ ByteIs(bytes, 1, 216) /\ ByteIs(bytes, 2, 255)
    THEN {IMAGE_JPEG}
  ELSE IF ByteIs(bytes, 0, 71) /\ ByteIs(bytes, 1, 73) /\ ByteIs(bytes, 2, 70) /\ ByteIs(bytes, 3, 56)
    THEN {IMAGE_GIF}
  ELSE IF /\ ByteIs(bytes, 0, 82) /\ ByteIs(bytes, 1, 73) /\ ByteIs(bytes, 2, 70) /\ ByteIs(bytes, 3, 70)
          /\ ByteIs(bytes, 8, 87) /\ ByteIs(bytes, 9, 69) /\ ByteIs(bytes, 10, 66) /\ ByteIs(bytes, 11, 80)
    THEN {IMAGE_WEBP}
  ELSE IF ByteIs(bytes, 0, 66) /\ ByteIs(bytes, 1, 77)
    THEN {IMAGE_BMP}
  ELSE {}

----------------------------------------------------------------------------
(* Byte buffers the sniffer is applied to.                                 *)

\* Every sequence over the bytes that occur in a signature (and 0) up to
\* this length is an input.
ShortLen == 2

SigBytes == {0, 137, 80, 78, 71, 255, 216, 73, 70, 56, 82, 87, 69, 66, 77}

PngBytes == <<137, 80, 78, 71, 13, 10, 26, 10>>

JpegBytes == <<255, 216, 255, 224, 0, 16>>

GifBytes == <<71, 73, 70, 56, 57, 97>>

WebpBytes == <<82, 73, 70, 70, 0, 0, 0, 0, 87, 69, 66, 80>>

BmpBytes == <<66, 77, 0, 0>>

TextBytes == <<110, 111, 116, 45>>

SampleBuffers == {PngBytes, JpegBytes, GifBytes, WebpBytes, BmpBytes, TextBytes}

Truncations == UNION { {Take(b, n) : n \in 0..Len(b)} : b \in SampleBuffers }

\* b with the byte at position i replaced by v
WithByte(b, i, v) == [b EXCEPT ![i] = v]

OneByteOff ==
  UNION { {WithByte(b, i, v) : i \in 1..Len(b), v \in SigBytes} : b \in Truncations }

ShortBuffers == UNION { [1..n -> SigBytes] : n \in 0..ShortLen }

SniffInputs == Truncations \cup OneByteOff \cup ShortBuffers

----------------------------------------------------------------------------
(* types.ts: exit codes                                                    *)

EXIT_SUCCESS == 0

EXIT_API_ERROR == 1

EXIT_INPUT_ERROR == 2

----------------------------------------------------------------------------
(* input.ts: mimeFromExtension                                             *)

UpperLetters ==
  <<"A", "B", "C", "D", "E", "F", "G", "H", "I", "J", "K", "L", "M",
    "N", "O", "P", "Q", "R", "S", "T", "U", "V", "W", "X", "Y", "Z">>

LowerLetters ==
  <<"a", "b", "c", "d", "e", "f", "g", "h", "i", "j", "k", "l", "m",
    "n", "o", "p", "q", "r", "s", "t", "u", "v", "w", "x", "y", "z">>

LowerChar(c) ==
  IF \E i \in 1..26 : UpperLetters[i] = c
    THEN LowerLetters[CHOOSE i \in 1..26 : UpperLetters[i] = c]
    ELSE c

\* String.prototype.toLowerCase
ToLowerCase(s) == [i \in 1..Len(s) |-> LowerChar(s[i])]

IMAGE_HEIC == IMAGE \o <<"h", "e", "i", "c">>

IMAGE_HEIF == IMAGE \o <<"h", "e", "i", "f">>

IMAGE_TIFF == IMAGE \o <<"t", "i", "f", "f">>

IMAGE_SVG == IMAGE \o <<"s", "v", "g", "+", "x", "m", "l">>

MIME_EXTENSIONS ==
  { <<<<".", "j", "p", "g">>, IMAGE_JPEG>>,
    <<<<".", "j", "p", "e", "g">>, IMAGE_JPEG>>,
    <<<<".", "p", "n", "g">>, IMAGE_PNG>>,
    <<<<".", "w", "e", "b", "p">>, IMAGE_WEBP>>,
    <<<<".", "g", "i", "f">>, IMAGE_GIF>>,
    <<<<".", "h", "e", "i", "c">>, IMAGE_HEIC>>,
    <<<<".", "h", "e", "i", "f">>, IMAGE_HEIF>>,
    <<<<".", "b", "m", "p">>, IMAGE_BMP>>,
    <<<<".", "t", "i", "f", "f">>, IMAGE_TIFF>>,
    <<<<".", "t", "i", "f">>, IMAGE_TIFF>>,
    <<<<".", "s", "v", "g">>, IMAGE_SVG>> }

\* MIME_EXTENSIONS[ext]: {} when ext is no key of the table
MimeOfExt(ext) == {p[2] : p \in {q \in MIME_EXTENSIONS : q[1] = ext}}

\* s.match(/\.[^.]+$/)?.[0]: a dot followed by one or more non-dot
\* characters up to the end of the string; {} when there is no match.
MatchDotExt(s) ==
  LET starts == {k \in 1..Len(s) :
                   /\ s[k] = "."
                   /\ k < Len(s)
                   /\ \A j \in (k + 1)..Len(s) : s[j] # "."}
  IN IF starts = {} THEN {}
     ELSE {SubSeq(s, CHOOSE k \in starts : \A j \in starts : k <= j, Len(s))}

\* A mutation of mimeFromExtension: the path is not lower-cased first.
mimeFromExtensionCaseSensitive(path) ==
  LET ext == Coalesce(MatchDotExt(path), <<>>)
  IN Coalesce(MimeOfExt(ext), IMAGE_JPEG)

mimeFromExtension(path) ==
  LET ext == Coalesce(MatchDotExt(ToLowerCase(path)), <<>>)
  IN Coalesce(MimeOfExt(ext), IMAGE_JPEG)

----------------------------------------------------------------------------
(* input.ts: toBase64, makePart                                            *)

\* Base64 text is a sequence of alphabet indices 0..63; 64 stands for the
\* padding character "=".
RECURSIVE toBase64(_)
toBase64(bytes) ==
  IF Len(bytes) = 0 THEN <<>>
  ELSE IF Len(bytes) = 1 THEN
    <<bytes[1] \div 4, (bytes[1] % 4) * 16, 64, 64>>
  ELSE IF Len(bytes) = 2 THEN
    <<bytes[1] \div 4, (bytes[1] % 4) * 16 + bytes[2] \div 16, (bytes[2] % 16) * 4, 64>>
  ELSE
    <<bytes[1] \div 4, (bytes[1] % 4) * 16 + bytes[2] \div 16,
      (bytes[2] % 16) * 4 + bytes[3] \div 64, bytes[3] % 64>>
    \o toBase64(Drop(bytes, 3))

makePart(data, mimeType) == [inlineData |-> [data |-> data, mimeType |-> mimeType]]

----------------------------------------------------------------------------
(* input.ts: the four loaders and loadImagePart.                           *)
(*                                                                         *)
(* A loader either returns a Part or ends the process with process.exit.   *)
(* Its outcome records the exit code ({} when it returned), the lines it   *)
(* wrote to stderr, the Part ({} when it exited), the loader functions     *)
(* that were entered, and whether the clipboard's temporary file is left   *)
(* on disk.                                                                *)

Diag(text) == [text |-> text, path |-> {}]

Returned(part, calls, tmpLeft) ==
  [exit |-> {}, stderr |-> <<>>, part |-> {part}, calls |-> calls, tmpLeft |-> tmpLeft]

Exited(code, lines, calls, tmpLeft) ==
  [exit |-> {code}, stderr |-> lines, part |-> {}, calls |-> calls, tmpLeft |-> tmpLeft]

\* existsSync(resolved) is fileExists; Bun.file(resolved).arrayBuffer() is bytes
loadFromFile(filePath, fileExists, bytes) ==
  IF ~fileExists THEN
    Exited(EXIT_INPUT_ERROR, <<Diag("Error: File not found")>>, <<"loadFromFile">>, FALSE)
  ELSE IF Len(bytes) = 0 THEN
    Exited(EXIT_INPUT_ERROR, <<Diag("Error: File is empty")>>, <<"loadFromFile">>, FALSE)
  ELSE
    Returned(makePart(toBase64(bytes),
                      Coalesce(detectMimeFromBytes(bytes), mimeFromExtension(filePath))),
             <<"loadFromFile">>, FALSE)

\* header.split(";")[0]
BeforeSemicolon(h) ==
  LET semis == {k \in 1..Len(h) : h[k] = ";"}
  IN IF semis = {} THEN h
     ELSE Take(h, (CHOOSE k \in semis : \A j \in semis : k <= j) - 1)

\* response.ok
StatusOk(status) == status >= 200 /\ status <= 299

\* A mutation of loadFromUrl: a failed fetch ends the process with the API
\* error code.
loadFromUrlApiExit(url, e) ==
  IF e.fetch = "throw" THEN
    Exited(EXIT_API_ERROR, <<Diag("Error: Failed to fetch image"), Diag("fetch error message")>>,
           <<"loadFromUrl">>, FALSE)
  ELSE IF ~StatusOk(e.status) THEN
    Exited(EXIT_API_ERROR, <<Diag("Error: Failed to fetch image (status)")>>, <<"loadFromUrl">>, FALSE)
  ELSE IF Len(e.bytes) = 0 THEN
    Exited(EXIT_INPUT_ERROR, <<Diag("Error: Fetched image is empty")>>, <<"loadFromUrl">>, FALSE)
  ELSE
    LET contentType == IF e.contentType = {} THEN <<>> ELSE BeforeSemicolon(Val(e.contentType))
    IN Returned(makePart(toBase64(e.bytes),
                         Coalesce(detectMimeFromBytes(e.bytes),
                                  IF StartsWith(contentType, IMAGE) THEN contentType ELSE IMAGE_JPEG)),
                <<"loadFromUrl">>, FALSE)

loadFromUrl(url, e) ==
  IF e.fetch = "throw" THEN
    Exited(EXIT_INPUT_ERROR, <<Diag("Error: Failed to fetch image"), Diag("fetch error message")>>,
           <<"loadFromUrl">>, FALSE)
  ELSE IF ~StatusOk(e.status) THEN
    Exited(EXIT_INPUT_ERROR, <<Diag("Error: Failed to fetch image (status)")>>, <<"loadFromUrl">>, FALSE)
  ELSE IF Len(e.bytes) = 0 THEN
    Exited(EXIT_INPUT_ERROR, <<Diag("Error: Fetched image is empty")>>, <<"loadFromUrl">>, FALSE)
  ELSE
    LET contentType == IF e.contentType = {} THEN <<>> ELSE BeforeSemicolon(Val(e.contentType))
    IN Returned(makePart(toBase64(e.bytes),
                         Coalesce(detectMimeFromBytes(e.bytes),
                                  IF StartsWith(contentType, IMAGE) THEN contentType ELSE IMAGE_JPEG)),
                <<"loadFromUrl">>, FALSE)

loadFromStdin(e) ==
  IF Len(e.bytes) = 0 THEN
    Exited(EXIT_INPUT_ERROR, <<Diag("Error: No data received from stdin")>>, <<"loadFromStdin">>, FALSE)
  ELSE
    Returned(makePart(toBase64(e.bytes), Coalesce(detectMimeFromBytes(e.bytes), IMAGE_PNG)),
             <<"loadFromStdin">>, FALSE)

\* `/tmp/imgx-clipboard-${Date.now()}.png`; the timestamp is one atom
ClipboardTmpPath ==
  <<"/", "t", "m", "p", "/", "i", "m", "g", "x", "-", "c", "l", "i", "p", "b", "o", "a", "r", "d", "-",
    "<now>", ".", "p", "n", "g">>

\* The script opens (creates) the temporary file before it reads the
\* clipboard, so the file is on disk whatever osascript's exit code; only
\* the statement after a returning loadFromFile unlinks it.
loadFromClipboard(e) ==
  IF e.clipExit # 0 THEN
    Exited(EXIT_INPUT_ERROR, <<Diag("Error: No image data in clipboard")>>, <<"loadFromClipboard">>, TRUE)
  ELSE
    LET r == loadFromFile(ClipboardTmpPath, TRUE, e.bytes)
    IN [r EXCEPT !.calls = <<"loadFromClipboard">> \o r.calls,
                 !.tmpLeft = (r.exit # {})]

HTTP == <<"h", "t", "t", "p", ":", "/", "/">>

HTTPS == <<"h", "t", "t", "p", "s", ":", "/", "/">>

CLIPBOARD == <<"c", "l", "i", "p", "b", "o", "a", "r", "d">>

\* A mutation of loadImagePart: a descriptor that names an existing file is
\* loaded as a file before the clipboard and URL tests.
loadImagePartFileFirst(src, e) ==
  IF src = <<"-">> THEN loadFromStdin(e)
  ELSE IF e.exists THEN loadFromFile(src, e.exists, e.bytes)
  ELSE IF src = CLIPBOARD THEN loadFromClipboard(e)
  ELSE IF StartsWith(src, HTTP) \/ StartsWith(src, HTTPS) THEN loadFromUrl(src, e)
  ELSE loadFromFile(src, e.exists, e.bytes)

loadImagePart(src, e) ==
  IF src = <<"-">> THEN loadFromStdin(e)
  ELSE IF src = CLIPBOARD THEN loadFromClipboard(e)
  ELSE IF StartsWith(src, HTTP) \/ StartsWith(src, HTTPS) THEN loadFromUrl(src, e)
  ELSE loadFromFile(src, e.exists, e.bytes)

----------------------------------------------------------------------------
(* Descriptors and sources the loader is applied to.                       *)

Descriptors ==
  { <<"-">>,
    CLIPBOARD,
    HTTP \o <<"h", "/", "a", ".", "g", "i", "f">>,
    HTTPS \o <<"h", "/", "a">>,
    <<"H", "T", "T", "P", ":", "/", "/", "h">>,
    <<"h", "t", "t", "p", ":", "/", "a", ".", "b", "m", "p">>,
    <<"-", "x">>,
    CLIPBOARD \o <<".", "p", "n", "g">>,
    <<"a", ".", "w", "e", "b", "p">>,
    <<"A", ".", "P", "N", "G">>,
    <<"t", "e", "s", "t", ".", "d", "a", "t">>,
    <<"a", ".", "p", "n", "g", ".", "T", "i", "f">>,
    <<"d", ".", "g", "i", "f", "/", "n", "o", "e", "x", "t">>,
    <<"a", ".", "s", "v", "g", ".">>,
    <<"n", "o", "e", "x", "t">> }

ContentTypes ==
  { {},
    {IMAGE_GIF},
    {IMAGE_WEBP \o <<";", " ", "q", "=", "1">>},
    {<<"t", "e", "x", "t", "/", "h", "t", "m", "l">>},
    {<<"t", "e", "x", "t", "/", "x", ";", "a", "=">> \o IMAGE_GIF},
    {<<"I", "M", "A", "G", "E", "/", "g", "i", "f">>} }

LoadBuffers == {<<>>, PngBytes, JpegBytes, TextBytes, <<66>>}

Envs ==
  [exists : BOOLEAN, bytes : LoadBuffers, fetch : {"throw", "response"},
   status : {200, 404}, contentType : ContentTypes, clipExit : {0, 1}]

\* The variables of the loader while another specification runs.
IdleLoad ==
  /\ source = <<>>
  /\ env = [exists |-> FALSE, bytes |-> <<>>, fetch |-> "throw", status |-> 404,
            contentType |-> {}, clipExit |-> 1]
  /\ loaded = {}

----------------------------------------------------------------------------
(* output.ts: parseResponse                                                *)
(*                                                                         *)
(* A response is [candidates]; a candidate is [content]; content is        *)
(* [parts]; each of these may be undefined.  An element of parts has the   *)
(* fields thought, text, executableCode, codeExecutionResult, inlineData.  *)

\* A JavaScript string or array is truthy when it is defined and not empty.
TruthyStr(opt) == opt # {} /\ Val(opt) # ""

TruthySeq(opt) == opt # {} /\ Val(opt) # <<>>

ParsedPart(type, content, mimeType, data) ==
  [type |-> type, content |-> content, mimeType |-> mimeType, data |-> data]

\* part.executableCode?.code
CodeOf(part) == IF part.executableCode = {} THEN {} ELSE Val(part.executableCode).code

\* part.inlineData?.data
DataOf(part) == IF part.inlineData = {} THEN {} ELSE Val(part.inlineData).data

\* A mutation of the loop body: the plain-text test comes before the
\* thought test.
classifyPartTextFirst(part) ==
  IF TruthyStr(part.text) THEN
    <<ParsedPart("text", Val(part.text), {}, {})>>
  ELSE IF part.thought /\ TruthyStr(part.text) THEN
    <<ParsedPart("thought", Val(part.text), {}, {})>>
  ELSE IF TruthyStr(CodeOf(part)) THEN
    <<ParsedPart("code", Val(CodeOf(part)), {}, {})>>
  ELSE IF part.codeExecutionResult # {} THEN
    <<ParsedPart("result", Coalesce(Val(part.codeExecutionResult).output, ""), {}, {})>>
  ELSE IF TruthySeq(DataOf(part)) THEN
    <<ParsedPart("image", "", Val(part.inlineData).mimeType, DataOf(part))>>
  ELSE <<>>

\* The body of the loop: the parts pushed for one element (none or one).
classifyPart(part) ==
  IF part.thought /\ TruthyStr(part.text) THEN
    <<ParsedPart("thought", Val(part.text), {}, {})>>
  ELSE IF TruthyStr(part.text) THEN
    <<ParsedPart("text", Val(part.text), {}, {})>>
  ELSE IF TruthyStr(CodeOf(part)) THEN
    <<ParsedPart("code", Val(CodeOf(part)), {}, {})>>
  ELSE IF part.codeExecutionResult # {} THEN
    <<ParsedPart("result", Coalesce(Val(part.codeExecutionResult).output, ""), {}, {})>>
  ELSE IF TruthySeq(DataOf(part)) THEN
    <<ParsedPart("image", "", Val(part.inlineData).mimeType, DataOf(part))>>
  ELSE <<>>

\* for (const part of list) { ... parts.push(...) }
RECURSIVE parseParts(_)
parseParts(list) ==
  IF list = <<>> THEN <<>>
  ELSE classifyPart(Head(list)) \o parseParts(Tail(list))

\* candidates[k].content?.parts ?? []
PartsOf(candidate) ==
  IF candidate.content = {} THEN <<>>
  ELSE Coalesce(Val(candidate.content).parts, <<>>)

RECURSIVE AllParts(_)
AllParts(candidates) ==
  IF candidates = <<>> THEN <<>>
  ELSE PartsOf(Head(candidates)) \o AllParts(Tail(candidates))

\* A mutation of parseResponse: every candidate's parts are walked.
parseResponseAllCandidates(resp) ==
  IF ~TruthySeq(resp.candidates) THEN <<>>
  ELSE parseParts(AllParts(Val(resp.candidates)))

parseResponse(resp) ==
  IF ~TruthySeq(resp.candidates) THEN <<>>
  ELSE parseParts(PartsOf(Val(resp.candidates)[1]))

----------------------------------------------------------------------------
(* output.ts: saveImages                                                   *)

RECURSIVE Split(_, _)
\* s.split(c) for a one-character separator c
Split(s, c) ==
  LET hits == {k \in 1..Len(s) : s[k] = c}
      first == CHOOSE k \in hits : \A j \in hits : k <= j
  IN IF hits = {} THEN <<s>>
     ELSE <<Take(s, first - 1)>> \o Split(Drop(s, first), c)

\* s.replace(pattern, replacement) for a string pattern: the first
\* occurrence only
ReplaceFirst(s, pattern, replacement) ==
  LET hits == {k \in 1..(Len(s) - Len(pattern) + 1) :
                 SubSeq(s, k, k + Len(pattern) - 1) = pattern}
      first == CHOOSE k \in hits : \A j \in hits : k <= j
  IN IF hits = {} THEN s
     ELSE Take(s, first - 1) \o replacement \o Drop(s, first + Len(pattern) - 1)

JPEG == <<"j", "p", "e", "g">>

JPG == <<"j", "p", "g">>

PNG == <<"p", "n", "g">>

\* img.mimeType?.split("/")[1]?.replace("jpeg", "jpg") ?? "png"
ExtensionOf(mimeType) ==
  IF mimeType = {} THEN PNG
  ELSE LET segments == Split(Val(mimeType), "/")
       IN IF Len(segments) < 2 THEN PNG
          ELSE ReplaceFirst(segments[2], JPEG, JPG)

RECURSIVE DecodeSextets(_)
DecodeSextets(d) ==
  IF Len(d) >= 4 THEN
    <<d[1] * 4 + d[2] \div 16, (d[2] % 16) * 16 + d[3] \div 4, (d[3] % 4) * 64 + d[4]>>
    \o DecodeSextets(Drop(d, 4))
  ELSE IF Len(d) = 3 THEN <<d[1] * 4 + d[2] \div 16, (d[2] % 16) * 16 + d[3] \div 4>>
  ELSE IF Len(d) = 2 THEN <<d[1] * 4 + d[2] \div 16>>
  ELSE <<>>

\* Buffer.from(data, "base64"): decoding stops at the padding
fromBase64(data) ==
  LET pads == {k \in 1..Len(data) : data[k] = 64}
  IN DecodeSextets(IF pads = {} THEN data
                   ELSE Take(data, (CHOOSE k \in pads : \A j \in pads : k <= j) - 1))

\* `imgx-${Date.now()}-${paths.length}.${ext}` joined to outputDir
ImagePath(outputDir, time, index, ext) ==
  [dir |-> outputDir, prefix |-> "imgx-", time |-> time, index |-> index, ext |-> ext]

\* Bun.write(filepath, buffer): creates the file or replaces its content
WriteFile(fs, filepath, buffer) ==
  {f \in fs : f.path # filepath} \cup {[path |-> filepath, bytes |-> buffer]}

\* parts.filter((p) => p.type === "image")
ImagesOf(parts) == SelectSeq(parts, LAMBDA p : p.type = "image")

\* A mutation of the entry of saveImages: the directory is created before
\* the image parts are counted.
saveImagesEntryMkdirFirst(parts, exists) ==
  [images |-> ImagesOf(parts),
   returns |-> ImagesOf(parts) = <<>>,
   dirExists |-> TRUE]

\* A mutation of the entry of saveImages: it returns before the writes.
saveImagesEntryReturnsEarly(parts, exists) ==
  [images |-> ImagesOf(parts),
   returns |-> TRUE,
   dirExists |-> IF ImagesOf(parts) = <<>> THEN exists ELSE TRUE]

\* The entry of saveImages, up to the loop: the image parts, whether the
\* function returns [] at once, and whether the directory exists afterwards.
saveImagesEntry(parts, exists) ==
  [images |-> ImagesOf(parts),
   returns |-> ImagesOf(parts) = <<>>,
   dirExists |-> IF ImagesOf(parts) = <<>> THEN exists ELSE TRUE]

----------------------------------------------------------------------------
(* output.ts: formatOutput                                                 *)
(*                                                                         *)
(* One call of console.log is one event: the pieces of its template, or    *)
(* the JSON document it serialised.                                        *)

LogText(pieces) == [pieces |-> pieces, json |-> {}]

LogJson(doc) == [pieces |-> <<>>, json |-> {doc}]

\* JSON.stringify of one part: a field that is undefined is left out
JsonObject(p) ==
  IF p.mimeType = {} /\ p.data = {} THEN [type |-> p.type, content |-> p.content]
  ELSE IF p.mimeType = {} THEN [type |-> p.type, content |-> p.content, data |-> Val(p.data)]
  ELSE IF p.data = {} THEN [type |-> p.type, content |-> p.content, mimeType |-> Val(p.mimeType)]
  ELSE [type |-> p.type, content |-> p.content, mimeType |-> Val(p.mimeType), data |-> Val(p.data)]

\* JSON.stringify(parts, null, 2)
JsonStringify(parts) == [i \in 1..Len(parts) |-> JsonObject(parts[i])]

RECURSIVE LogCodeParts(_)
LogCodeParts(parts) ==
  IF parts = <<>> THEN <<>>
  ELSE (IF Head(parts).type = "code" THEN <<LogText(<<Head(parts).content>>)>> ELSE <<>>)
       \o LogCodeParts(Tail(parts))

\* The three backquotes that open and close a fenced block
FENCE == "<backquote><backquote><backquote>"

\* The switch of the verbose loop
VerboseEvent(p) ==
  CASE p.type = "thought" -> <<LogText(<<"\n--- Thinking ---\n", p.content>>)>>
    [] p.type = "text" -> <<LogText(<<p.content>>)>>
    [] p.type = "code" -> <<LogText(<<"\n", FENCE, "python\n", p.content, "\n", FENCE>>)>>
    [] p.type = "result" -> <<LogText(<<"\n--- Execution Result ---\n", p.content>>)>>
    [] p.type = "image" -> <<LogText(<<"[Generated image saved]">>)>>
    [] OTHER -> <<>>

RECURSIVE LogVerbose(_)
LogVerbose(parts) ==
  IF parts = <<>> THEN <<>>
  ELSE VerboseEvent(Head(parts)) \o LogVerbose(Tail(parts))

\* A mutation of the default loop: thought parts are printed as well.
RECURSIVE LogTextPartsAndThoughts(_)
LogTextPartsAndThoughts(parts) ==
  IF parts = <<>> THEN <<>>
  ELSE (IF Head(parts).type \in {"text", "thought"}
          THEN <<LogText(<<Head(parts).content>>)>> ELSE <<>>)
       \o LogTextPartsAndThoughts(Tail(parts))

RECURSIVE LogTextParts(_)
LogTextParts(parts) ==
  IF parts = <<>> THEN <<>>
  ELSE (IF Head(parts).type = "text" THEN <<LogText(<<Head(parts).content>>)>> ELSE <<>>)
       \o LogTextParts(Tail(parts))

\* A mutation of formatOutput: the quiet test comes first.
formatOutputQuietFirst(parts, o) ==
  IF o.quiet THEN <<>>
  ELSE IF o.json THEN <<LogJson(JsonStringify(parts))>>
  ELSE IF o.code THEN LogCodeParts(parts)
  ELSE IF o.verbose THEN LogVerbose(parts)
  ELSE LogTextParts(parts)

\* A mutation of formatOutput: the quiet test comes after the code test.
formatOutputCodeFirst(parts, o) ==
  IF o.json THEN <<LogJson(JsonStringify(parts))>>
  ELSE IF o.code THEN LogCodeParts(parts)
  ELSE IF o.quiet THEN <<>>
  ELSE IF o.verbose THEN LogVerbose(parts)
  ELSE LogTextParts(parts)

\* The events formatOutput writes to stdout
formatOutput(parts, o) ==
  IF o.json THEN <<LogJson(JsonStringify(parts))>>
  ELSE IF o.quiet THEN <<>>
  ELSE IF o.code THEN LogCodeParts(parts)
  ELSE IF o.verbose THEN LogVerbose(parts)
  ELSE LogTextParts(parts)

----------------------------------------------------------------------------
(* The steps of the statements                                             *)
(*   const parsed = parseResponse(response);                               *)
(*   await saveImages(parsed, opts.images);                                *)
(*   formatOutput(parsed, opts);                                           *)
(* which analyze and every chat turn run on a response.                    *)

\* The clock does not run past this value.
MaxClock == 2

ParseResponse ==
  /\ pc = "parse"
  /\ parsed' = parseResponse(response)
  /\ pc' = "save"
  /\ UNCHANGED <<response, opts, imageParts, paths, dirExisted, dirExists, files,
                 stdout, stderr, now>>
  /\ UNCHANGED <<sniffVars, loadVars, runVars, chatVars>>

\* saveImages up to its loop
SaveImagesEnter ==
  /\ pc = "save"
  /\ LET entry == saveImagesEntry(parsed, dirExists)
     IN /\ imageParts' = entry.images
        /\ dirExists' = entry.dirExists
        /\ pc' = IF entry.returns THEN "format" ELSE "saving"
  /\ paths' = <<>>
  /\ UNCHANGED <<response, opts, parsed, dirExisted, files, stdout, stderr, now>>
  /\ UNCHANGED <<sniffVars, loadVars, runVars, chatVars>>

\* One iteration of the loop of saveImages; it returns after the last one.
SaveImagesWrite ==
  /\ pc = "saving"
  /\ LET img == imageParts[Len(paths) + 1]
         filepath == ImagePath(opts.images, now, Len(paths), ExtensionOf(img.mimeType))
     IN /\ files' = WriteFile(files, filepath, fromBase64(Val(img.data)))
        /\ paths' = Append(paths, filepath)
        /\ stderr' = Append(stderr, [text |-> "Saved: ", path |-> {filepath}])
  /\ pc' = IF Len(paths) + 1 = Len(imageParts) THEN "format" ELSE "saving"
  /\ UNCHANGED <<response, opts, parsed, imageParts, dirExisted, dirExists, stdout, now>>
  /\ UNCHANGED <<sniffVars, loadVars, runVars, chatVars>>

\* Time passes while a write is awaited.
Tick ==
  /\ pc = "saving"
  /\ now < MaxClock
  /\ now' = now + 1
  /\ UNCHANGED <<pc, response, opts, parsed, imageParts, paths, dirExisted, dirExists,
                 files, stdout, stderr>>
  /\ UNCHANGED <<sniffVars, loadVars, runVars, chatVars>>

FormatOutput ==
  /\ pc = "format"
  /\ stdout' = stdout \o formatOutput(parsed, opts)
  /\ pc' = "done"
  /\ UNCHANGED <<response, opts, parsed, imageParts, paths, dirExisted, dirExists,
                 files, stderr, now>>
  /\ UNCHANGED <<sniffVars, loadVars, runVars, chatVars>>

----------------------------------------------------------------------------
(* Responses and options the output functions are applied to.              *)

\* A content list has at most this many elements.
MaxParts == 2

NoPart ==
  [thought |-> FALSE, text |-> {}, executableCode |-> {}, codeExecutionResult |-> {},
   inlineData |-> {}]

SomeData == toBase64(<<102, 97, 107, 101>>)

Inline(mimeType, data) == {[mimeType |-> mimeType, data |-> data]}

ServiceParts ==
  { [NoPart EXCEPT !.thought = TRUE, !.text = {"thinking..."}],
    [NoPart EXCEPT !.text = {"The answer is 42."}],
    [NoPart EXCEPT !.text = {""}],
    [NoPart EXCEPT !.thought = TRUE],
    [NoPart EXCEPT !.executableCode = {[code |-> {"print(42)"}]}],
    [NoPart EXCEPT !.executableCode = {[code |-> {""}]}],
    [NoPart EXCEPT !.codeExecutionResult = {[output |-> {"42\n"}]}],
    [NoPart EXCEPT !.codeExecutionResult = {[output |-> {}]}],
    [NoPart EXCEPT !.inlineData = Inline({IMAGE_PNG}, {SomeData})],
    [NoPart EXCEPT !.inlineData = Inline({IMAGE_JPEG}, {SomeData})],
    [NoPart EXCEPT !.inlineData = Inline({IMAGE \o <<"p", "j", "p", "e", "g">>}, {SomeData})],
    [NoPart EXCEPT !.inlineData = Inline({}, {SomeData})],
    [NoPart EXCEPT !.inlineData = Inline({IMAGE_PNG}, {})],
    [NoPart EXCEPT !.inlineData = Inline({IMAGE_PNG}, {<<>>})],
    NoPart,
    [NoPart EXCEPT !.text = {"see the code"}, !.executableCode = {[code |-> {"x = 1"}]}],
    [NoPart EXCEPT !.thought = TRUE, !.text = {""}, !.executableCode = {[code |-> {"x = 1"}]}],
    [NoPart EXCEPT !.codeExecutionResult = {[output |-> {"1"}]},
                   !.inlineData = Inline({IMAGE_GIF}, {SomeData})] }

PartLists == UNION { [1..n -> ServiceParts] : n \in 0..MaxParts }

Candidate(list) == [content |-> {[parts |-> {list}]}]

OtherCandidate == Candidate(<<[NoPart EXCEPT !.text = {"second candidate"}]>>)

Responses ==
  { [candidates |-> {}], [candidates |-> {<<>>}],
    [candidates |-> {<<[content |-> {}]>>}],
    [candidates |-> {<<[content |-> {[parts |-> {}]}]>>}],
    [candidates |-> {<<[content |-> {}], OtherCandidate>>}] }
  \cup { [candidates |-> {<<Candidate(l)>>}] : l \in PartLists }
  \cup { [candidates |-> {<<Candidate(l), OtherCandidate>>}] : l \in PartLists }

Options ==
  [verbose : BOOLEAN, code : BOOLEAN, json : BOOLEAN, quiet : BOOLEAN, images : {"./out"}]

\* The variables of the output functions while another specification runs.
IdleOut ==
  /\ pc = "idle"
  /\ response = [candidates |-> {}]
  /\ opts = [verbose |-> FALSE, code |-> FALSE, json |-> FALSE, quiet |-> FALSE, images |-> "."]
  /\ parsed = <<>>
  /\ imageParts = <<>>
  /\ paths = <<>>
  /\ dirExisted = TRUE
  /\ dirExists = TRUE
  /\ files = {}
  /\ stdout = <<>>
  /\ stderr = <<>>
  /\ now = 0

\* The variables of the analyze command while another specification runs.
IdleRun ==
  /\ args = <<>>
  /\ envs = <<>>
  /\ apiKey = FALSE
  /\ loads = <<>>
  /\ sent = <<>>
  /\ exit = {}

\* The variables of the chat loop while another specification runs.
IdleChat ==
  /\ turns = <<>>
  /\ stdin = <<>>

\* The variables of the sniffer while another specification runs.
IdleSniff ==
  /\ buf = <<>>
  /\ sniffDone = FALSE
  /\ sniffed = {}

----------------------------------------------------------------------------
(* SpecOutput: parseResponse, saveImages and formatOutput applied to one   *)
(* response.                                                               *)

InitOutput ==
  /\ pc = "parse"
  /\ response \in Responses
  /\ opts \in Options
  /\ parsed = <<>>
  /\ imageParts = <<>>
  /\ paths = <<>>
  /\ dirExisted \in BOOLEAN
  /\ dirExists = dirExisted
  /\ files = {}
  /\ stdout = <<>>
  /\ stderr = <<>>
  /\ now = 0
  /\ IdleSniff
  /\ IdleLoad
  /\ IdleRun
  /\ IdleChat

NextOutput ==
  \/ ParseResponse
  \/ SaveImagesEnter
  \/ SaveImagesWrite
  \/ Tick
  \/ FormatOutput

SpecOutput == InitOutput /\ [][NextOutput]_vars

----------------------------------------------------------------------------
(* analyze.ts: analyzeCommand, with client.ts: createClient                *)

\* process.exit(code) after console.error of the lines
ProcessExit(code, lines) ==
  /\ exit' = {code}
  /\ stderr' = stderr \o lines
  /\ pc' = "exited"

\* if (args.length < 2) { ... process.exit(EXIT_INPUT_ERROR) }
CheckArgs ==
  /\ pc = "args"
  /\ IF Len(args) < 2
       THEN ProcessExit(EXIT_INPUT_ERROR,
                        <<Diag("Error: Need at least one image and a prompt."),
                          Diag("Usage: imgx analyze <image...> \"<prompt>\"")>>)
       ELSE pc' = "client" /\ UNCHANGED <<exit, stderr>>
  /\ UNCHANGED <<response, opts, parsed, imageParts, paths, dirExisted, dirExists, files,
                 stdout, now, args, envs, apiKey, loads, sent>>
  /\ UNCHANGED <<sniffVars, loadVars, chatVars>>

\* createClient(): without GEMINI_API_KEY the process ends
CreateClient ==
  /\ pc = "client"
  /\ IF ~apiKey
       THEN ProcessExit(EXIT_INPUT_ERROR,
                        <<Diag("Error: GEMINI_API_KEY environment variable is required."),
                          Diag("Get your key at: https://aistudio.google.com/apikey")>>)
       ELSE pc' = "load" /\ UNCHANGED <<exit, stderr>>
  /\ UNCHANGED <<response, opts, parsed, imageParts, paths, dirExisted, dirExists, files,
                 stdout, now, args, envs, apiKey, loads, sent>>
  /\ UNCHANGED <<sniffVars, loadVars, chatVars>>

\* args.slice(0, -1)
ImageSources == Take(args, Len(args) - 1)

\* A mutation of the load step: a failed load is skipped with an empty
\* payload in its place instead of ending the process.
LoadSourceSkipsFailure(i) ==
  /\ pc = "load"
  /\ loads[i] = {}
  /\ LET r == loadImagePart(ImageSources[i], envs[i])
     IN loads' = [loads EXCEPT ![i] = IF r.exit # {} THEN {makePart(<<>>, IMAGE_PNG)}
                                       ELSE r.part]
  /\ UNCHANGED <<pc, exit, stderr>>
  /\ UNCHANGED <<response, opts, parsed, imageParts, paths, dirExisted, dirExists, files,
                 stdout, now, args, envs, apiKey, sent>>
  /\ UNCHANGED <<sniffVars, loadVars, chatVars>>

\* Promise.all(imageSources.map(loadImagePart)): the load of source i
\* settles; the loads settle in any order.  A loader that calls
\* process.exit ends the process at once.
LoadSource(i) ==
  /\ pc = "load"
  /\ loads[i] = {}
  /\ LET r == loadImagePart(ImageSources[i], envs[i])
     IN IF r.exit # {}
          THEN ProcessExit(Val(r.exit), r.stderr) /\ UNCHANGED loads
          ELSE /\ loads' = [loads EXCEPT ![i] = r.part]
               /\ UNCHANGED <<pc, exit, stderr>>
  /\ UNCHANGED <<response, opts, parsed, imageParts, paths, dirExisted, dirExists, files,
                 stdout, now, args, envs, apiKey, sent>>
  /\ UNCHANGED <<sniffVars, loadVars, chatVars>>

\* contents: [...imageParts, { text: prompt }]
RequestContents ==
  [i \in 1..Len(args) |->
     IF i < Len(args) THEN [inlineData |-> {Val(loads[i]).inlineData}, text |-> {}]
     ELSE [inlineData |-> {}, text |-> {args[i]}]]

\* client.models.generateContent(...) is called once every load has resolved
SendRequest ==
  /\ pc = "load"
  /\ \A i \in 1..Len(loads) : loads[i] # {}
  /\ sent' = Append(sent, RequestContents)
  /\ pc' = "request"
  /\ UNCHANGED <<response, opts, parsed, imageParts, paths, dirExisted, dirExists, files,
                 stdout, stderr, now, args, envs, apiKey, loads, exit>>
  /\ UNCHANGED <<sniffVars, loadVars, chatVars>>

\* The service answers: the await resolves with a response
ServiceResponds(r) ==
  /\ pc = "request"
  /\ response' = r
  /\ pc' = "parse"
  /\ UNCHANGED <<opts, parsed, imageParts, paths, dirExisted, dirExists, files,
                 stdout, stderr, now>>
  /\ UNCHANGED <<sniffVars, loadVars, runVars, chatVars>>

\* The service call fails (network, status, timeout, model error): the
\* catch block reports it and ends the process
ServiceFails ==
  /\ pc = "request"
  /\ ProcessExit(EXIT_API_ERROR, <<Diag("API Error: ")>>)
  /\ UNCHANGED <<response, opts, parsed, imageParts, paths, dirExisted, dirExists, files,
                 stdout, now, args, envs, apiKey, loads, sent>>
  /\ UNCHANGED <<sniffVars, loadVars, chatVars>>

\* analyzeCommand returns; nothing is pending and the process ends normally
Return ==
  /\ pc = "done"
  /\ exit' = {EXIT_SUCCESS}
  /\ pc' = "exited"
  /\ UNCHANGED <<response, opts, parsed, imageParts, paths, dirExisted, dirExists, files,
                 stdout, stderr, now, args, envs, apiKey, loads, sent>>
  /\ UNCHANGED <<sniffVars, loadVars, chatVars>>

----------------------------------------------------------------------------
(* Invocations of analyze.                                                 *)

\* analyze is given at most this many image sources.
MaxSources == 2

DefaultEnv ==
  [exists |-> TRUE, bytes |-> PngBytes, fetch |-> "response", status |-> 200,
   contentType |-> {IMAGE_GIF}, clipExit |-> 0]

FilePath == <<"a", ".", "w", "e", "b", "p">>

UrlPath == HTTPS \o <<"h", "/", "a">>

SourceCases ==
  { [src |-> FilePath, env |-> DefaultEnv],
    [src |-> FilePath, env |-> [DefaultEnv EXCEPT !.exists = FALSE]],
    [src |-> FilePath, env |-> [DefaultEnv EXCEPT !.bytes = <<>>]],
    [src |-> UrlPath, env |-> [DefaultEnv EXCEPT !.bytes = TextBytes]],
    [src |-> UrlPath, env |-> [DefaultEnv EXCEPT !.fetch = "throw"]],
    [src |-> UrlPath, env |-> [DefaultEnv EXCEPT !.status = 404]],
    [src |-> UrlPath, env |-> [DefaultEnv EXCEPT !.bytes = <<>>]],
    [src |-> <<"-">>, env |-> [DefaultEnv EXCEPT !.bytes = JpegBytes]],
    [src |-> <<"-">>, env |-> [DefaultEnv EXCEPT !.bytes = <<>>]],
    [src |-> CLIPBOARD, env |-> DefaultEnv],
    [src |-> CLIPBOARD, env |-> [DefaultEnv EXCEPT !.clipExit = 1]] }

SourceLists == UNION { [1..n -> SourceCases] : n \in 0..MaxSources }

PROMPT == <<"w", "h", "a", "t", "?">>

AnalyzeResponses ==
  { [candidates |-> {}],
    [candidates |-> {<<Candidate(<<[NoPart EXCEPT !.text = {"The answer is 42."}]>>)>>}],
    [candidates |-> {<<Candidate(<<[NoPart EXCEPT !.executableCode = {[code |-> {"print(42)"}]}],
                                   [NoPart EXCEPT !.inlineData = Inline({IMAGE_JPEG}, {SomeData})]>>)>>}] }

----------------------------------------------------------------------------
(* SpecAnalyze: one run of `imgx analyze <args...>`.                       *)

InitAnalyze ==
  /\ pc = "args"
  /\ \E l \in SourceLists :
       /\ args = [i \in 1..Len(l) |-> l[i].src] \o <<PROMPT>>
       /\ envs = [i \in 1..Len(l) |-> l[i].env]
       /\ loads = [i \in 1..Len(l) |-> {}]
  /\ apiKey \in BOOLEAN
  /\ opts \in Options
  /\ sent = <<>>
  /\ exit = {}
  /\ response = [candidates |-> {}]
  /\ parsed = <<>>
  /\ imageParts = <<>>
  /\ paths = <<>>
  /\ dirExisted \in BOOLEAN
  /\ dirExists = dirExisted
  /\ files = {}
  /\ stdout = <<>>
  /\ stderr = <<>>
  /\ now = 0
  /\ IdleSniff
  /\ IdleLoad
  /\ IdleChat

NextAnalyze ==
  \/ CheckArgs
  \/ CreateClient
  \/ \E i \in 1..Len(loads) : LoadSource(i)
  \/ SendRequest
  \/ \E r \in AnalyzeResponses : ServiceResponds(r)
  \/ ServiceFails
  \/ ParseResponse
  \/ SaveImagesEnter
  \/ SaveImagesWrite
  \/ Tick
  \/ FormatOutput
  \/ Return

SpecAnalyze == InitAnalyze /\ [][NextAnalyze]_vars

----------------------------------------------------------------------------
(* chat.ts: chatCommand                                                    *)
(*                                                                         *)
(* The first message is sent by the body of chatCommand; every later       *)
(* message is sent by the handler of the readline "line" event.  The       *)
(* handler is an async function: readline does not wait for the promise    *)
(* it returns, so a line that arrives while an earlier handler is at one   *)
(* of its awaits starts a new handler.  Each handler's locals are one      *)
(* record of turns.                                                        *)

WHITESPACE == {" ", "\t"}

RECURSIVE TrimStart(_)
TrimStart(s) ==
  IF s # <<>> /\ Head(s) \in WHITESPACE THEN TrimStart(Tail(s)) ELSE s

RECURSIVE TrimEnd(_)
TrimEnd(s) ==
  IF s # <<>> /\ s[Len(s)] \in WHITESPACE THEN TrimEnd(Take(s, Len(s) - 1)) ELSE s

\* line.trim()
Trim(s) == TrimEnd(TrimStart(s))

EXIT == <<"e", "x", "i", "t">>

QUIT == <<"q", "u", "i", "t">>

\* A mutation of the handler's test: quit is not recognised.
ClosesInterfaceWithoutQuit(input) == input = <<>> \/ input = EXIT

\* !input || input === "exit" || input === "quit"
ClosesInterface(input) == input = <<>> \/ input = EXIT \/ input = QUIT

DEFAULT_PROMPT == <<"I've loaded this image. What would you like to know?">>

\* prompt ?? "I've loaded this image. ..."; args is <<imageSource>> or
\* <<imageSource, prompt>>
InitialPrompt == IF Len(args) >= 2 THEN args[2] ELSE DEFAULT_PROMPT

\* message: [imagePart, { text: initialPrompt }]
FirstMessage(imagePart) ==
  <<[inlineData |-> {imagePart.inlineData}, text |-> {}],
    [inlineData |-> {}, text |-> {InitialPrompt}]>>

\* message: input
TurnMessage(input) == <<[inlineData |-> {}, text |-> {input}]>>

\* rl.prompt(): the prompt goes to the interface's output, process.stderr
RlPrompt == Diag("\nimgx> ")

\* const imagePart = await loadImagePart(imageSource); then, in the same
\* run, the chat is created and the first message is sent
LoadAndSendFirst ==
  /\ pc = "load"
  /\ LET r == loadImagePart(args[1], envs[1])
     IN IF r.exit # {}
          THEN ProcessExit(Val(r.exit), r.stderr) /\ UNCHANGED <<loads, sent>>
          ELSE /\ loads' = <<r.part>>
               /\ sent' = Append(sent, FirstMessage(Val(r.part)))
               /\ pc' = "request"
               /\ UNCHANGED <<exit, stderr>>
  /\ UNCHANGED <<response, opts, parsed, imageParts, paths, dirExisted, dirExists, files,
                 stdout, now, args, envs, apiKey>>
  /\ UNCHANGED <<sniffVars, loadVars, chatVars>>

\* await chat.sendMessage(...) of the first message resolves
FirstResponds(r) ==
  /\ pc = "request"
  /\ response' = r
  /\ pc' = "parse"
  /\ UNCHANGED <<opts, parsed, imageParts, paths, dirExisted, dirExists, files,
                 stdout, stderr, now>>
  /\ UNCHANGED <<sniffVars, loadVars, runVars, chatVars>>

\* The first message fails: the catch block reports it and ends the process
FirstFails ==
  /\ pc = "request"
  /\ ProcessExit(EXIT_API_ERROR, <<Diag("API Error: ")>>)
  /\ UNCHANGED <<response, opts, parsed, imageParts, paths, dirExisted, dirExists, files,
                 stdout, now, args, envs, apiKey, loads, sent>>
  /\ UNCHANGED <<sniffVars, loadVars, chatVars>>

\* readline.createInterface(...); rl.prompt(); the handlers are registered
CreateInterface ==
  /\ pc = "done"
  /\ pc' = "repl"
  /\ stderr' = Append(stderr, RlPrompt)
  /\ UNCHANGED <<response, opts, parsed, imageParts, paths, dirExisted, dirExists, files,
                 stdout, now>>
  /\ UNCHANGED <<sniffVars, loadVars, runVars, chatVars>>

\* The locals of a line handler that has sent its message
NewTurn(input) ==
  [input |-> input, pc |-> "request", parsed |-> <<>>, imageParts |-> <<>>, paths |-> <<>>]

\* The states of a handler that is at one of its awaits or has yet to render
InProgress == {"request", "saving", "format"}

\* A "line" event: the handler runs up to its first await.  A blank line,
\* exit and quit call rl.close(), whose "close" event runs process.exit(0).
ReadLine ==
  /\ pc = "repl"
  /\ stdin # <<>>
  /\ stdin' = Tail(stdin)
  /\ LET input == Trim(Head(stdin))
     IN IF ClosesInterface(input)
          THEN ProcessExit(EXIT_SUCCESS, <<>>) /\ UNCHANGED <<turns, sent>>
          ELSE /\ turns' = Append(turns, NewTurn(input))
               /\ sent' = Append(sent, TurnMessage(input))
               /\ UNCHANGED <<pc, exit, stderr>>
  /\ UNCHANGED <<response, opts, parsed, imageParts, paths, dirExisted, dirExists, files,
                 stdout, now, args, envs, apiKey, loads>>
  /\ UNCHANGED <<sniffVars, loadVars>>

\* End of input (Ctrl+D, or the end of a pipe): readline closes and the
\* "close" handler runs process.exit(0).
EndOfInput ==
  /\ pc = "repl"
  /\ stdin = <<>>
  /\ ProcessExit(EXIT_SUCCESS, <<>>)
  /\ UNCHANGED <<response, opts, parsed, imageParts, paths, dirExisted, dirExists, files,
                 stdout, now, args, envs, apiKey, loads, sent>>
  /\ UNCHANGED <<sniffVars, loadVars, chatVars>>

\* The await of handler i's sendMessage resolves: parseResponse, then
\* saveImages up to its first await
TurnResponds(i, r) ==
  /\ pc = "repl"
  /\ turns[i].pc = "request"
  /\ LET p == parseResponse(r)
         entry == saveImagesEntry(p, dirExists)
     IN /\ turns' = [turns EXCEPT ![i] = [@ EXCEPT !.parsed = p,
                                                   !.imageParts = entry.images,
                                                   !.pc = IF entry.returns THEN "format"
                                                          ELSE "saving"]]
        /\ dirExists' = entry.dirExists
  /\ UNCHANGED <<pc, response, opts, parsed, imageParts, paths, dirExisted, files,
                 stdout, stderr, now, stdin>>
  /\ UNCHANGED <<sniffVars, loadVars, runVars>>

\* One iteration of the loop of saveImages in handler i
TurnSaveWrite(i) ==
  /\ pc = "repl"
  /\ turns[i].pc = "saving"
  /\ LET t == turns[i]
         img == t.imageParts[Len(t.paths) + 1]
         filepath == ImagePath(opts.images, now, Len(t.paths), ExtensionOf(img.mimeType))
     IN /\ files' = WriteFile(files, filepath, fromBase64(Val(img.data)))
        /\ stderr' = Append(stderr, [text |-> "Saved: ", path |-> {filepath}])
        /\ turns' = [turns EXCEPT ![i] = [@ EXCEPT !.paths = Append(t.paths, filepath),
                                                   !.pc = IF Len(t.paths) + 1 = Len(t.imageParts)
                                                            THEN "format" ELSE "saving"]]
  /\ UNCHANGED <<pc, response, opts, parsed, imageParts, paths, dirExisted, dirExists,
                 stdout, now, stdin>>
  /\ UNCHANGED <<sniffVars, loadVars, runVars>>

\* formatOutput(parsed, opts); rl.prompt() in handler i
TurnFormat(i) ==
  /\ pc = "repl"
  /\ turns[i].pc = "format"
  /\ stdout' = stdout \o formatOutput(turns[i].parsed, opts)
  /\ stderr' = Append(stderr, RlPrompt)
  /\ turns' = [turns EXCEPT ![i].pc = "done"]
  /\ UNCHANGED <<pc, response, opts, parsed, imageParts, paths, dirExisted, dirExists,
                 files, now, stdin>>
  /\ UNCHANGED <<sniffVars, loadVars, runVars>>

\* A mutation of the handler's catch block: it ends the process as the
\* catch block of the first message does.
TurnFailsAndExits(i) ==
  /\ pc = "repl"
  /\ turns[i].pc = "request"
  /\ turns' = [turns EXCEPT ![i].pc = "failed"]
  /\ ProcessExit(EXIT_API_ERROR, <<Diag("Error: ")>>)
  /\ UNCHANGED <<response, opts, parsed, imageParts, paths, dirExisted, dirExists,
                 files, stdout, now, stdin>>
  /\ UNCHANGED <<sniffVars, loadVars, args, envs, apiKey, loads, sent>>

\* Handler i's sendMessage fails: catch reports the error; rl.prompt()
TurnFails(i) ==
  /\ pc = "repl"
  /\ turns[i].pc = "request"
  /\ stderr' = stderr \o <<Diag("Error: "), RlPrompt>>
  /\ turns' = [turns EXCEPT ![i].pc = "failed"]
  /\ UNCHANGED <<pc, response, opts, parsed, imageParts, paths, dirExisted, dirExists,
                 files, stdout, now, stdin>>
  /\ UNCHANGED <<sniffVars, loadVars, runVars>>

\* Time passes while a handler is at an await.
ChatTick ==
  /\ pc = "repl"
  /\ now < MaxClock
  /\ \E i \in 1..Len(turns) : turns[i].pc \in {"request", "saving"}
  /\ now' = now + 1
  /\ UNCHANGED <<pc, response, opts, parsed, imageParts, paths, dirExisted, dirExists,
                 files, stdout, stderr>>
  /\ UNCHANGED <<sniffVars, loadVars, runVars, chatVars>>

----------------------------------------------------------------------------
(* Invocations of chat and the lines typed at its prompt.                  *)

\* At most this many lines arrive on stdin before its end.
MaxLines == 2

ChatSources ==
  { [src |-> FilePath, env |-> DefaultEnv],
    [src |-> FilePath, env |-> [DefaultEnv EXCEPT !.exists = FALSE]] }

ChatLines ==
  { <<" ", "w", "h", "y", "?", " ">>, <<" ">>, EXIT, <<" ", "q", "u", "i", "t">> }

ChatScripts == UNION { [1..n -> ChatLines] : n \in 0..MaxLines }

ChatOptions == {o \in Options : ~o.json /\ ~o.code /\ ~o.quiet}

----------------------------------------------------------------------------
(* SpecChat: one run of `imgx chat <image> [prompt]`.                      *)

InitChat ==
  /\ pc = "client"
  /\ \E c \in ChatSources :
       /\ args \in {<<c.src>>, <<c.src, PROMPT>>}
       /\ envs = <<c.env>>
  /\ loads = <<{}>>
  /\ apiKey \in BOOLEAN
  /\ opts \in ChatOptions
  /\ stdin \in ChatScripts
  /\ turns = <<>>
  /\ sent = <<>>
  /\ exit = {}
  /\ response = [candidates |-> {}]
  /\ parsed = <<>>
  /\ imageParts = <<>>
  /\ paths = <<>>
  /\ dirExisted \in BOOLEAN
  /\ dirExists = dirExisted
  /\ files = {}
  /\ stdout = <<>>
  /\ stderr = <<>>
  /\ now = 0
  /\ IdleSniff
  /\ IdleLoad

NextChat ==
  \/ CreateClient
  \/ LoadAndSendFirst
  \/ \E r \in AnalyzeResponses : FirstResponds(r)
  \/ FirstFails
  \/ ParseResponse
  \/ SaveImagesEnter
  \/ SaveImagesWrite
  \/ Tick
  \/ FormatOutput
  \/ CreateInterface
  \/ ReadLine
  \/ EndOfInput
  \/ \E i \in 1..Len(turns), r \in AnalyzeResponses : TurnResponds(i, r)
  \/ \E i \in 1..Len(turns) : TurnSaveWrite(i)
  \/ \E i \in 1..Len(turns) : TurnFormat(i)
  \/ \E i \in 1..Len(turns) : TurnFails(i)
  \/ ChatTick

SpecChat == InitChat /\ [][NextChat]_vars

----------------------------------------------------------------------------

(* SpecSniff: detectMimeFromBytes applied to one buffer.                   *)

InitSniff ==
  /\ buf \in SniffInputs
  /\ sniffDone = FALSE
  /\ sniffed = {}
  /\ IdleLoad
  /\ IdleOut
  /\ IdleRun
  /\ IdleChat

Sniff ==
  /\ ~sniffDone
  /\ sniffed' = detectMimeFromBytes(buf)
  /\ sniffDone' = TRUE
  /\ UNCHANGED <<buf, loadVars, outVars, runVars, chatVars>>

NextSniff == Sniff

SpecSniff == InitSniff /\ [][NextSniff]_vars

----------------------------------------------------------------------------
(* C2: detectMimeFromBytes returns PNG iff the buffer starts 0x89 P N G,   *)
(* JPEG iff it starts 0xFF 0xD8 0xFF, GIF iff it starts G I F 8, WEBP iff  *)
(* bytes 0-3 are RIFF and bytes 8-11 are WEBP, BMP iff it starts B M; at   *)
(* most one signature matches a buffer; and a buffer that is empty,        *)
(* shorter than 2 bytes, too short for its signature or matching no        *)
(* signature yields null.                                                  *)

HasAt(bytes, offset, sig) ==
  /\ Len(bytes) >= offset + Len(sig)
  /\ SubSeq(bytes, offset + 1, offset + Len(sig)) = sig

Signatures(bytes) ==
  {m \in {IMAGE_PNG, IMAGE_JPEG, IMAGE_GIF, IMAGE_WEBP, IMAGE_BMP} :
     \/ m = IMAGE_PNG /\ HasAt(bytes, 0, <<137, 80, 78, 71>>)
     \/ m = IMAGE_JPEG /\ HasAt(bytes, 0, <<255, 216, 255>>)
     \/ m = IMAGE_GIF /\ HasAt(bytes, 0, <<71, 73, 70, 56>>)
     \/ m = IMAGE_WEBP /\ HasAt(bytes, 0, <<82, 73, 70, 70>>) /\ HasAt(bytes, 8, <<87, 69, 66, 80>>)
     \/ m = IMAGE_BMP /\ HasAt(bytes, 0, <<66, 77>>)}

C2_SnifferMatchesSignatures ==
  sniffDone =>
    /\ Cardinality(Signatures(buf)) <= 1
    /\ sniffed = Signatures(buf)
    /\ Len(buf) < 2 => sniffed = {}

\* A 12-byte RIFF....WEBP buffer has been classified as image/webp.
C2_Witness ==
  /\ sniffDone
  /\ Len(buf) = 12
  /\ sniffed = {IMAGE_WEBP}

----------------------------------------------------------------------------
(* SpecLoad: loadImagePart applied to one descriptor.                      *)

InitLoad ==
  /\ source \in Descriptors
  /\ env \in Envs
  /\ loaded = {}
  /\ IdleSniff
  /\ IdleOut
  /\ IdleRun
  /\ IdleChat

LoadImagePart ==
  /\ loaded = {}
  /\ loaded' = {loadImagePart(source, env)}
  /\ UNCHANGED <<source, env, sniffVars, outVars, runVars, chatVars>>

NextLoad == LoadImagePart

SpecLoad == InitLoad /\ [][NextLoad]_vars

----------------------------------------------------------------------------
(* C1: loadImagePart dispatches on the descriptor with this precedence:    *)
(* "-" goes to the stdin loader; else "clipboard" goes to the clipboard    *)
(* loader, even if a file of that name exists; else a descriptor starting  *)
(* with "http://" or "https://" goes to the URL loader; every other        *)
(* descriptor goes to the file loader.  Exactly one loader is invoked by   *)
(* the call (the clipboard loader then reads its temporary file through    *)
(* loadFromFile, its own delegation).                                      *)

ExpectedLoader(src) ==
  CASE src = <<"-">> -> "loadFromStdin"
    [] src # <<"-">> /\ src = CLIPBOARD -> "loadFromClipboard"
    [] src # <<"-">> /\ src # CLIPBOARD
         /\ (Take(src, 7) = HTTP \/ Take(src, 8) = HTTPS) -> "loadFromUrl"
    [] OTHER -> "loadFromFile"

C1_DispatchPrecedence ==
  \A r \in loaded :
    /\ Head(r.calls) = ExpectedLoader(source)
    /\ \/ Len(r.calls) = 1
       \/ r.calls = <<"loadFromClipboard", "loadFromFile">>
    /\ Len(r.calls) = 2 => source = CLIPBOARD

\* The descriptor "clipboard" was loaded from the clipboard although a
\* file of that name exists.
C1_Witness ==
  /\ source = CLIPBOARD
  /\ env.exists
  /\ \E r \in loaded : Head(r.calls) = "loadFromClipboard"

----------------------------------------------------------------------------
(* C3: for every successfully loaded source the payload's MIME type is the *)
(* sniffer's result whenever that is not Unknown, whatever the extension,  *)
(* the declared content-type or the source kind; only when it is Unknown   *)
(* the fallback is used: for a file the extension lookup (case-insensitive,*)
(* final dot-extension, image/jpeg when unmatched or absent), for a URL    *)
(* the content-type header stripped of parameters if it begins with        *)
(* "image/" and otherwise image/jpeg, for stdin image/png.                 *)

\* The final dot-extension of a path, lower-cased: from the last dot to the
\* end, when something follows that dot.
FinalExtension(path) ==
  LET dots == {k \in 1..Len(path) : path[k] = "."}
      last == CHOOSE k \in dots : \A j \in dots : j <= k
  IN IF dots = {} \/ last = Len(path) THEN <<>>
     ELSE [i \in 1..(Len(path) - last + 1) |-> LowerChar(path[last + i - 1])]

ExtensionFallback(path) ==
  IF \E p \in MIME_EXTENSIONS : p[1] = FinalExtension(path)
    THEN (CHOOSE p \in MIME_EXTENSIONS : p[1] = FinalExtension(path))[2]
    ELSE IMAGE_JPEG

\* The header without its parameters: what precedes the first ";"
StrippedHeader(h) ==
  IF \E k \in 1..Len(h) : h[k] = ";"
    THEN SubSeq(h, 1, (CHOOSE k \in 1..Len(h) : h[k] = ";" /\ \A j \in 1..(k - 1) : h[j] # ";") - 1)
    ELSE h

HeaderFallback(header) ==
  IF header # {} /\ Len(StrippedHeader(Val(header))) >= 6
     /\ SubSeq(StrippedHeader(Val(header)), 1, 6) = IMAGE
    THEN StrippedHeader(Val(header))
    ELSE IMAGE_JPEG

Fallback(loader) ==
  CASE loader = "loadFromFile" -> ExtensionFallback(source)
    [] loader = "loadFromUrl" -> HeaderFallback(env.contentType)
    [] loader = "loadFromStdin" -> IMAGE_PNG
    [] loader = "loadFromClipboard" -> IMAGE_PNG

C3_SnifferFirstThenFallback ==
  \A r \in loaded : \A part \in r.part :
    part.inlineData.mimeType =
      IF Signatures(env.bytes) # {} THEN Val(Signatures(env.bytes))
      ELSE Fallback(Head(r.calls))

\* A file with an upper-case extension and no signature was loaded and
\* typed by its extension.
C3_Witness ==
  /\ source = <<"A", ".", "P", "N", "G">>
  /\ env.bytes = TextBytes
  /\ \E r \in loaded : \E part \in r.part : part.inlineData.mimeType = IMAGE_PNG

----------------------------------------------------------------------------
(* C4, as stated: the exit code is determined by the failure class in      *)
(* every run: 0 only when the invocation succeeded; 1 for every            *)
(* service/API-level failure, including transport errors (network failure, *)
(* non-success HTTP status); 2 for every input-level failure (missing      *)
(* credential, fewer than two analyze arguments, missing file, zero-byte   *)
(* file/body/stdin, unreadable source).                                    *)

\* The failures the run can report, by the first line written for them
InputFailures ==
  { "Error: Need at least one image and a prompt.",
    "Error: GEMINI_API_KEY environment variable is required.",
    "Error: File not found",
    "Error: File is empty",
    "Error: Fetched image is empty",
    "Error: No data received from stdin",
    "Error: No image data in clipboard" }

FetchFailures ==
  { "Error: Failed to fetch image", "Error: Failed to fetch image (status)" }

ServiceFailures == { "API Error: " }

\* The failure lines on stderr (the lines that report no saved image)
FailureLines == SelectSeq(stderr, LAMBDA d : d.path = {})

\* Every source was loaded and the one request was sent and answered.
Succeeded ==
  /\ FailureLines = <<>>
  /\ \A i \in 1..Len(loads) : loads[i] # {}
  /\ Len(sent) = 1

----------------------------------------------------------------------------
(* C5: parseResponse is an order-preserving projection of the first        *)
(* candidate's content list: every fragment comes from exactly one         *)
(* element, every element yields at most one fragment, the fragments are   *)
(* in the order of their elements, and elements of other candidates are    *)
(* never used; when the candidate list is absent or empty, or the first    *)
(* candidate has no content, the result is the empty sequence.             *)

\* The content list of the first candidate; empty when there is none.
FirstContentList(resp) ==
  IF resp.candidates = {} THEN <<>>
  ELSE IF Len(Val(resp.candidates)) = 0 THEN <<>>
  ELSE IF Val(resp.candidates)[1].content = {} THEN <<>>
  ELSE IF Val(Val(resp.candidates)[1].content).parts = {} THEN <<>>
  ELSE Val(Val(Val(resp.candidates)[1].content).parts)

\* The fragment carries what the element carries.
ComesFrom(fragment, element) ==
  \/ fragment.type \in {"thought", "text"} /\ element.text = {fragment.content}
  \/ /\ fragment.type = "code"
     /\ \E x \in element.executableCode : x.code = {fragment.content}
  \/ /\ fragment.type = "result"
     /\ \E x \in element.codeExecutionResult : fragment.content \in x.output \cup {""}
  \/ /\ fragment.type = "image"
     /\ \E x \in element.inlineData : x.data = fragment.data /\ x.mimeType = fragment.mimeType

C5_OrderPreservingProjection ==
  pc \notin {"idle", "parse"} =>
    LET elements == FirstContentList(response)
    IN /\ Len(parsed) <= Len(elements)
       /\ \E f \in [1..Len(parsed) -> 1..Len(elements)] :
            /\ \A i, j \in 1..Len(parsed) : i < j => f[i] < f[j]
            /\ \A i \in 1..Len(parsed) : ComesFrom(parsed[i], elements[f[i]])

\* A two-element list whose first element yields nothing was projected to
\* the one fragment of its second element, and a second candidate was
\* ignored.
C5_Witness ==
  /\ pc = "save"
  /\ \E c \in response.candidates : Len(c) = 2
  /\ Len(FirstContentList(response)) = 2
  /\ FirstContentList(response)[1] = NoPart
  /\ Len(parsed) = 1
  /\ parsed[1].type = "code"

----------------------------------------------------------------------------
(* C6: each element of the first candidate's content list is mapped by     *)
(* first-match-wins rules in this order: marked reasoning and carries text *)
(* -> Reasoning; carries text -> Narration; carries an executable-code     *)
(* payload with non-empty code -> Code; carries a code-execution-result    *)
(* payload -> ExecutionResult with the reported output, or "" when the     *)
(* output is omitted; carries inline binary data -> Image with content ""  *)
(* and mimeType/data copied; an element matching none of these produces no *)
(* fragment.  An element carries text (inline data) when the field is      *)
(* there and is not the empty string.                                      *)

CarriesText(element) == \E t \in element.text : t # ""

CarriesCode(element) == \E x \in element.executableCode : \E c \in x.code : c # ""

CarriesResult(element) == element.codeExecutionResult # {}

CarriesInlineData(element) == \E x \in element.inlineData : \E d \in x.data : d # <<>>

\* The variant the rules give an element; "none" when no rule matches.
RuleVariant(element) ==
  IF element.thought /\ CarriesText(element) THEN "thought"
  ELSE IF CarriesText(element) THEN "text"
  ELSE IF CarriesCode(element) THEN "code"
  ELSE IF CarriesResult(element) THEN "result"
  ELSE IF CarriesInlineData(element) THEN "image"
  ELSE "none"

\* The positions of the elements that some rule matches, in order
MatchedPositions(elements) ==
  SelectSeq([i \in 1..Len(elements) |-> i], LAMBDA i : RuleVariant(elements[i]) # "none")

FragmentObeysRules(fragment, element) ==
  /\ fragment.type = RuleVariant(element)
  /\ fragment.type \in {"thought", "text"} => fragment.content = Val(element.text)
  /\ fragment.type = "code" => fragment.content = Val(Val(element.executableCode).code)
  /\ fragment.type = "result" =>
       fragment.content = (IF Val(element.codeExecutionResult).output = {} THEN ""
                           ELSE Val(Val(element.codeExecutionResult).output))
  /\ fragment.type = "image" =>
       /\ fragment.content = ""
       /\ fragment.mimeType = Val(element.inlineData).mimeType
       /\ fragment.data = Val(element.inlineData).data
  /\ fragment.type # "image" => fragment.mimeType = {} /\ fragment.data = {}

C6_FirstMatchWinsRules ==
  pc \notin {"idle", "parse"} =>
    LET elements == FirstContentList(response)
        matched == MatchedPositions(elements)
    IN /\ Len(parsed) = Len(matched)
       /\ \A i \in 1..Len(matched) : FragmentObeysRules(parsed[i], elements[matched[i]])
       /\ \A i \in 1..Len(parsed) : parsed[i].type = "image" => parsed[i].content = ""

\* An execution result without output became ExecutionResult(""), and an
\* element with text and code became Narration.
C6_Witness ==
  /\ pc = "save"
  /\ Len(parsed) = 2
  /\ parsed[1].type = "result" /\ parsed[1].content = ""
  /\ \E x \in FirstContentList(response)[1].codeExecutionResult : x.output = {}
  /\ parsed[2].type = "text"
  /\ FirstContentList(response)[2].executableCode # {}

----------------------------------------------------------------------------
(* C7: saveImages called with a fragment sequence that contains no Image   *)
(* fragment returns the empty path list and leaves the filesystem          *)
(* unchanged: it neither creates the target directory nor writes a file    *)
(* nor emits a diagnostic, whether the directory exists or not.            *)

NoImageFragment == \A i \in 1..Len(parsed) : parsed[i].type # "image"

C7_NoImagesNoFilesystemEffect ==
  (pc \in {"format", "done"} /\ NoImageFragment) =>
    /\ paths = <<>>
    /\ dirExists = dirExisted
    /\ files = {}
    /\ stderr = <<>>

\* saveImages has returned for two fragments, none an image, and the
\* missing directory is still missing.
C7_Witness ==
  /\ pc = "format"
  /\ Len(parsed) = 2
  /\ NoImageFragment
  /\ ~dirExisted
  /\ ~dirExists

----------------------------------------------------------------------------
(* C8: for every Image fragment saveImages derives the file extension from *)
(* the MIME type's subtype: jpeg maps to jpg, every other subtype passes   *)
(* through verbatim, and the extension is png when the MIME type is        *)
(* absent; the returned paths are in fragment order.                       *)

\* What follows the first "/" of a MIME type
Subtype(mimeType) ==
  LET slashes == {k \in 1..Len(mimeType) : mimeType[k] = "/"}
  IN SubSeq(mimeType, (CHOOSE k \in slashes : \A j \in slashes : k <= j) + 1, Len(mimeType))

StatedExtension(mimeType) ==
  IF mimeType = {} THEN PNG
  ELSE IF Subtype(Val(mimeType)) = JPEG THEN JPG
  ELSE Subtype(Val(mimeType))

ImageFragments == SelectSeq(parsed, LAMBDA p : p.type = "image")

C8_ExtensionFromSubtype ==
  pc \in {"format", "done"} =>
    /\ Len(paths) = Len(ImageFragments)
    /\ \A j \in 1..Len(paths) : paths[j].ext = StatedExtension(ImageFragments[j].mimeType)

----------------------------------------------------------------------------
(* C9: formatOutput selects exactly one of the five presentation modes for *)
(* every combination of the json, quiet, code and verbose options, with    *)
(* precedence JSON, then quiet, then code-only, then verbose, else         *)
(* default; the output is that of the selected mode alone.                 *)

SelectedMode(o) ==
  IF o.json THEN "json"
  ELSE IF o.quiet THEN "quiet"
  ELSE IF o.code THEN "code"
  ELSE IF o.verbose THEN "verbose"
  ELSE "default"

ContentsOf(type) ==
  LET chosen == SelectSeq(parsed, LAMBDA p : p.type = type)
  IN [i \in 1..Len(chosen) |-> [pieces |-> <<chosen[i].content>>, json |-> {}]]

VerboseMarker(type) ==
  CASE type = "thought" -> "\n--- Thinking ---\n"
    [] type = "code" -> "python\n"
    [] type = "result" -> "\n--- Execution Result ---\n"
    [] type = "image" -> "[Generated image saved]"

IsVerboseEventOf(event, p) ==
  /\ event.json = {}
  /\ IF p.type = "text" THEN event.pieces = <<p.content>>
     ELSE \E k \in 1..Len(event.pieces) : event.pieces[k] = VerboseMarker(p.type)
  /\ p.type # "image" => \E k \in 1..Len(event.pieces) : event.pieces[k] = p.content

IsJsonOf(event, parts) ==
  /\ event.pieces = <<>>
  /\ \E doc \in event.json :
       /\ Len(doc) = Len(parts)
       /\ \A i \in 1..Len(parts) :
            /\ doc[i].type = parts[i].type
            /\ doc[i].content = parts[i].content
            /\ parts[i].type = "image" => doc[i].data = Val(parts[i].data)

C9_OneModeByPrecedence ==
  pc = "done" =>
    LET mode == SelectedMode(opts)
    IN /\ mode = "json" => Len(stdout) = 1 /\ IsJsonOf(stdout[1], parsed)
       /\ mode = "quiet" => stdout = <<>>
       /\ mode = "code" => stdout = ContentsOf("code")
       /\ mode = "verbose" =>
            /\ Len(stdout) = Len(parsed)
            /\ \A i \in 1..Len(parsed) : IsVerboseEventOf(stdout[i], parsed[i])
       /\ mode = "default" => stdout = ContentsOf("text")

\* With all four options set, two fragments were written as one JSON event.
C9_Witness ==
  /\ pc = "done"
  /\ opts.json /\ opts.quiet /\ opts.code /\ opts.verbose
  /\ Len(parsed) = 2
  /\ Len(stdout) = 1
  /\ stdout[1].json # {}

----------------------------------------------------------------------------
(* C10, as stated: when the quiet option is set, formatOutput never writes *)
(* to stdout, for every fragment sequence.                                 *)

----------------------------------------------------------------------------
(* C11: in default mode (no json, quiet, code or verbose option)           *)
(* formatOutput writes exactly one event per Narration (text) fragment,    *)
(* carrying that fragment's content unchanged, in fragment order, and      *)
(* nothing for thought, code, result and image fragments; a sequence with  *)
(* no text fragment writes nothing.                                        *)

DefaultMode(o) == ~o.json /\ ~o.quiet /\ ~o.code /\ ~o.verbose

NarrationPositions == {i \in 1..Len(parsed) : parsed[i].type = "text"}

\* The position of the k-th Narration fragment
NarrationAt(k) ==
  CHOOSE i \in NarrationPositions :
    Cardinality({j \in NarrationPositions : j <= i}) = k

C11_DefaultPrintsNarrationOnly ==
  (pc = "done" /\ DefaultMode(opts)) =>
    /\ Len(stdout) = Cardinality(NarrationPositions)
    /\ \A k \in 1..Len(stdout) :
         /\ stdout[k].json = {}
         /\ stdout[k].pieces = <<parsed[NarrationAt(k)].content>>

\* Default mode rendered a thought followed by a text fragment: one event,
\* the text.
C11_Witness ==
  /\ pc = "done"
  /\ DefaultMode(opts)
  /\ Len(parsed) = 2
  /\ parsed[1].type = "thought"
  /\ parsed[2].type = "text"
  /\ stdout = <<LogText(<<parsed[2].content>>)>>

----------------------------------------------------------------------------
(* C15: in an analyze of several images the loads are started together and *)
(* awaited jointly; if any one load fails then, in whatever order the      *)
(* loads settle, the operation is abandoned: no request is sent to the     *)
(* generation service, no payload of a loaded source is used, nothing is   *)
(* persisted or rendered, and the process ends with the input-error code,  *)
(* reporting the failure that was observed first.                          *)

LoadOutcome(i) == loadImagePart(ImageSources[i], envs[i])

FailingSources == {i \in 1..Len(loads) : LoadOutcome(i).exit # {}}

NothingPersistedOrRendered ==
  /\ parsed = <<>>
  /\ paths = <<>>
  /\ files = {}
  /\ dirExists = dirExisted
  /\ stdout = <<>>

C15_WitnessFailureFirst ==
  /\ Len(loads) = 2
  /\ loads[1] = {}
  /\ FailingSources = {2}
  /\ exit = {EXIT_INPUT_ERROR}
  /\ apiKey

----------------------------------------------------------------------------
(* C16: on every path through the clipboard loader the temporary file it   *)
(* creates no longer exists once the loader has finished or the process    *)
(* has ended: when extraction and loading succeed, when the extraction     *)
(* helper fails, and when loading the temporary file fails.                *)

ClipboardOutcomes == {r \in loaded : Head(r.calls) = "loadFromClipboard"}

C16_TemporaryFileAlwaysRemoved ==
  \A r \in ClipboardOutcomes : ~r.tmpLeft

----------------------------------------------------------------------------
(* C17: every file written by one saveImages call is named                 *)
(* imgx-<T>-<i>.<ext>, where T is the millisecond timestamp taken at the   *)
(* time of the call, the same T for all files of that call however long    *)
(* the writes take, and i is the zero-based index of the image among the   *)
(* call's image fragments, without gaps; hence the paths one call returns  *)
(* are pairwise distinct.                                                  *)

C17_OneTimestampPerCall ==
  \A k \in 1..Len(paths) :
    /\ paths[k].dir = opts.images
    /\ paths[k].prefix = "imgx-"
    /\ paths[k].index = k - 1
    /\ paths[k].time = paths[1].time
    /\ \A j \in 1..Len(paths) : j # k => paths[j] # paths[k]

\* What does hold of the names: the index counts the call's images from 0,
\* so the paths of one call are pairwise distinct, and the timestamps do
\* not decrease.
C17_IndexedAndDistinct ==
  \A k \in 1..Len(paths) :
    /\ paths[k].prefix = "imgx-"
    /\ paths[k].index = k - 1
    /\ \A j \in 1..Len(paths) :
         /\ j # k => paths[j] # paths[k]
         /\ j < k => paths[j].time <= paths[k].time

----------------------------------------------------------------------------
(* C12, as stated: in chat mode a failed turn does not end the session:    *)
(* whenever the service call of any turn fails, the error is reported on   *)
(* stderr, the turn is abandoned and the loop goes on accepting input; the *)
(* process does not terminate because of a failed turn.                    *)

\* The step in which the first message's service call fails
FirstMessageFails == pc = "request" /\ pc' \notin {"request", "parse"}

\* The step in which the service call of the handler of line i fails
LoopTurnFails(i) ==
  /\ i \in 1..Len(turns')
  /\ turns[i].pc = "request"
  /\ turns'[i].pc = "failed"

C12_FailedTurnNeverEndsSession ==
  [][(FirstMessageFails \/ \E i \in 1..Len(turns) : LoopTurnFails(i)) =>
       /\ exit' = {}
       /\ Len(stderr') > Len(stderr)]_vars

(* C12, amended: a failed turn of the interactive loop does not end the    *)
(* session: whenever the service call of a line entered at the prompt      *)
(* fails, the error is reported on stderr, nothing is persisted or         *)
(* rendered for that turn, the prompt is shown again and the process keeps *)
(* running; only a failure of the first message, which is sent before the  *)
(* loop starts, ends the process, with the API error code.                 *)

C12_FailedLoopTurnNeverEndsSession ==
  /\ [][\A i \in 1..Len(turns) : LoopTurnFails(i) =>
          /\ exit' = {}
          /\ pc' = "repl"
          /\ stderr' = stderr \o <<Diag("Error: "), RlPrompt>>
          /\ stdout' = stdout
          /\ files' = files
          /\ turns'[i].paths = <<>>
          /\ stdin' = stdin]_vars
  /\ [][FirstMessageFails =>
          /\ exit' = {EXIT_API_ERROR}
          /\ stderr' = Append(stderr, Diag("API Error: "))
          /\ turns' = <<>>]_vars
  /\ [](exit = {EXIT_API_ERROR} => turns = <<>>)

\* The first line's turn failed, the process is running, and the turn of
\* a second line has been rendered.
C12_Witness ==
  /\ Len(turns) = 2
  /\ turns[1].pc = "failed"
  /\ turns[2].pc = "done"
  /\ exit = {}
  /\ pc = "repl"
  /\ stdin = <<>>

----------------------------------------------------------------------------
(* C13: a chat session is ended only by end of input or by an exit token   *)
(* (exit, quit), and in both cases the process ends with exit code 0;      *)
(* every other input line is sent to the service as one turn and the loop  *)
(* prompts again afterwards.                                               *)

ExitTokens == {EXIT, QUIT}

\* The step that takes the next line from stdin
LineArrives == pc = "repl" /\ stdin # <<>> /\ stdin' = Tail(stdin)

EndsSession(line) == Trim(line) = <<>> \/ Trim(line) \in ExitTokens

----------------------------------------------------------------------------
(* C14: the chat loop is strictly sequential: at every moment at most one  *)
(* service request is outstanding, and no line handler starts while an     *)
(* earlier line's request, persistence or render is still in progress,     *)
(* for every arrival timing of the input lines.                            *)

TurnsIn(states) == {i \in 1..Len(turns) : turns[i].pc \in states}

C14_StrictlySequential ==
  /\ Cardinality(TurnsIn({"request"})) <= 1
  /\ Cardinality(TurnsIn(InProgress)) <= 1

----------------------------------------------------------------------------
(* C19: every chat input line that was accepted as a turn (not blank, not  *)
(* an exit token) has its response rendered or its error reported before   *)
(* the process exits; end of input or an exit token that arrives while a   *)
(* turn's request is in flight does not end the process before that turn   *)
(* has been rendered or reported.                                          *)

C19_AcceptedTurnsSettleBeforeExit ==
  exit # {} => TurnsIn(InProgress) = {}

----------------------------------------------------------------------------
(* C18: for every response, of the first message and of every chat turn    *)
(* (analyze runs the same three statements), persistence and rendering     *)
(* consume the same fragment sequence, all image writes of the response    *)
(* are complete before any stdout output for that response is written,     *)
(* and rendering undoes nothing of persistence: the files written stay on  *)
(* disk.                                                                   *)

\* Every image of the fragment sequence has been written: one path per
\* image, each naming a file on disk.
AllWritten(fragments, images, written) ==
  /\ images = ImagesOf(fragments)
  /\ Len(written) = Len(images)
  /\ \A k \in 1..Len(written) : \E f \in files : f.path = written[k]

\* The step that renders the response of the first message (or of analyze)
RendersResponse == pc = "format" /\ pc' = "done"

\* The step that renders the response of the handler of line i
RendersTurn(i) ==
  /\ i \in 1..Len(turns')
  /\ turns[i].pc = "format"
  /\ turns'[i].pc = "done"

C18_PersistBeforeRenderNoRollback ==
  /\ [][RendersResponse =>
          /\ AllWritten(parsed, imageParts, paths)
          /\ stdout' = stdout \o formatOutput(parsed, opts)
          /\ files' = files
          /\ paths' = paths]_vars
  /\ [][\A i \in 1..Len(turns) : RendersTurn(i) =>
          /\ AllWritten(turns[i].parsed, turns[i].imageParts, turns[i].paths)
          /\ stdout' = stdout \o formatOutput(turns[i].parsed, opts)
          /\ files' = files
          /\ turns'[i].paths = turns[i].paths]_vars
  /\ [][stdout' # stdout =>
          RendersResponse \/ \E i \in 1..Len(turns) : RendersTurn(i)]_vars
  /\ [][\A f \in files : ~(\E i \in 1..Len(turns) : turns[i].pc = "saving") /\ pc # "saving" =>
          f \in files']_vars

\* Verbose mode, a turn whose response held code and an image: the image
\* is on disk and the turn has been rendered after the first message's
\* response.
C18_Witness ==
  /\ opts.verbose
  /\ Len(turns) >= 1
  /\ turns[1].pc = "done"
  /\ Len(turns[1].paths) = 1
  /\ \E f \in files : f.path = turns[1].paths[1]
  /\ Len(stdout) >= 2

====
